---- MODULE Spec2Model ----
(***************************************************************************)
(* POS KHQR backend (src/main.py): the in-memory sales table SALES, the    *)
(* expiry refresh, and the four request handlers create_sale, get_sale,    *)
(* check_sale_status and cancel_sale.  The handlers are plain `def`        *)
(* routes, so FastAPI runs them on a thread pool: a handler is modelled as *)
(* a sequence of steps, one per access to the shared table or the clock,   *)
(* and the steps of different worker threads interleave.                   *)
(***************************************************************************)
EXTENDS Integers, Sequences, FiniteSets, TLC

(* ---------------- bounds of the model ---------------- *)
NumThreads == 3
NumSaleIds == 1
MaxTime == 2

Threads == 1..NumThreads
SaleIds == 1..NumSaleIds
Times == 0..MaxTime

(* ---------------- configuration (src/main.py:21-30) ---------------- *)
\* int(os.getenv("SALE_TTL_SECONDS", "300")): a deployment with a TTL of
\* one second, so that sales expire within MaxTime
SALE_TTL_SECONDS == 1

(* Python's None, for paid_at and for absent locals *)
None == -1

(* ---------------- strings, as sequences of characters ---------------- *)
LowerChars == <<"a","b","c","d","e","f","g","h","i","j","k","l","m",
                "n","o","p","q","r","s","t","u","v","w","x","y","z">>
UpperChars == <<"A","B","C","D","E","F","G","H","I","J","K","L","M",
                "N","O","P","Q","R","S","T","U","V","W","X","Y","Z">>

Whitespace == {" ", "\t", "\n", "\r"}
Quote == "\""

\* str.upper() on one character
UpperChar(c) ==
    IF \E i \in 1..Len(LowerChars) : LowerChars[i] = c
    THEN UpperChars[CHOOSE i \in 1..Len(LowerChars) : LowerChars[i] = c]
    ELSE c

\* str.upper()
Upper(s) == [i \in 1..Len(s) |-> UpperChar(s[i])]

\* str.strip(chars): drop the leading and the trailing characters in cs
RECURSIVE LStrip(_, _)
LStrip(s, cs) ==
    IF s # <<>> /\ Head(s) \in cs THEN LStrip(Tail(s), cs) ELSE s

RECURSIVE RStrip(_, _)
RStrip(s, cs) ==
    IF s # <<>> /\ s[Len(s)] \in cs THEN RStrip(SubSeq(s, 1, Len(s) - 1), cs) ELSE s

Strip(s, cs) == RStrip(LStrip(s, cs), cs)

\* result.strip().strip('"').upper()            (line 217)
Normalise(result) == Upper(Strip(Strip(result, Whitespace), {Quote}))

PAID_WORDS == { <<"P","A","I","D">>,
                <<"S","U","C","C","E","S","S">>,
                <<"S","U","C","C","E","S","S","F","U","L">>,
                <<"C","O","M","P","L","E","T","E","D">> }

\* the substring test the comment of lines 221-222 warns against:
\* "PAID" in result_str
IsPaidResult_Substring(result) ==
    \E i \in 1..Len(result) :
        i + 3 <= Len(result) /\ Upper(SubSeq(result, i, i + 3)) = <<"P","A","I","D">>

\* result_str in ("PAID", "SUCCESS", "SUCCESSFUL", "COMPLETED")   (line 223)
IsPaidResult(result) == Normalise(result) \in PAID_WORDS

(* the oracle's possible answers: a word, wrapped in whitespace and quotes *)
Words == { <<"P","A","I","D">>, <<"p","a","i","d">>, <<"P","a","i","d">>,
           <<"U","N","P","A","I","D">>,
           <<"N","O","T","_","F","O","U","N","D">>,
           <<"S","U","C","C","E","S","S">>,
           <<"s","u","c","c","e","s","s","f","u","l">>,
           <<"C","o","m","p","l","e","t","e","d">>,
           <<"P","A","I","D","X">>,
           <<"P","A"," ","I","D">>,
           <<>> }

Wraps == { << <<>>, <<>> >>,
           << <<" ">>, <<"\n">> >>,
           << <<Quote>>, <<Quote>> >>,
           << <<" ", Quote>>, <<Quote, "\t">> >>,
           << <<Quote, " ">>, <<" ", Quote>> >>,
           << <<"'">>, <<"'">> >> }

Responses == { w[1] \o x \o w[2] : w \in Wraps, x \in Words }

\* the two answers the lifecycle depends on: a paid one and an unpaid one
Answers == { <<"P","A","I","D">>, <<"U","N","P","A","I","D">> }

(* ---------------- requests of create_sale ---------------- *)
\* SaleCreateReq (lines 79-83): amount > 0, currency in {USD, KHR}
Requests == { [amount |-> 10, currency |-> "USD", note |-> "Coke x2", cashier_id |-> "C01"],
              [amount |-> 0,  currency |-> "USD", note |-> "None",    cashier_id |-> "None"],
              [amount |-> 10, currency |-> "EUR", note |-> "None",    cashier_id |-> "None"] }

ValidReq(req) == req.amount > 0 /\ req.currency \in {"USD", "KHR"}

NoReq == [amount |-> 0, currency |-> "None", note |-> "None", cashier_id |-> "None"]

VARIABLES
    SALES,          \* sale id -> record, or NoSale when the id is not a key
    now,            \* int(time.time())
    BAKONG_TOKEN,   \* whether an oracle token is configured
    pc,             \* thread -> the line its handler is at, "idle" between calls
    call,           \* thread -> the call it runs: op, sale_id, req
    loc,            \* thread -> the handler's local variables; expired is the
                    \* outcome of the comparison of line 65 in this call
    out,            \* the response sent by the step just taken, NoOut otherwise
    seen            \* sale id -> the (op, status) pairs, among Observed, of the
                    \* responses clients have received for it

vars == <<SALES, now, BAKONG_TOKEN, pc, call, loc, out, seen>>

NoSale == [status |-> "ABSENT"]
NoCall == [op |-> "none", sale_id |-> 0, req |-> NoReq]
NoResult == <<"-">>
NoLoc == [created_at |-> None, expired |-> FALSE, status |-> "None", result |-> NoResult]
NoOut == [op |-> "none", sale_id |-> 0, code |-> 0,
          detail |-> "None", status |-> "None", paid_at |-> None]

Present(sid) == SALES[sid] # NoSale

\* bill_number = f"POS-{created_at}-{sale_id[:8]}"     (line 117)
BillNumber(created_at, sid) == <<"POS", created_at, sid>>

\* khqr.generate_md5(khqr.create_qr(...)): a fingerprint of the payload   (lines 123-136)
Md5(req, bill) == <<"md5", req.amount, req.currency, bill>>

\* a sale whose expiry is not moved by the TTL
NewSale_NoTTL(sid, req, created_at) ==
    [sale_id |-> sid, amount |-> req.amount, currency |-> req.currency,
     note |-> req.note, cashier_id |-> req.cashier_id,
     bill_number |-> BillNumber(created_at, sid),
     md5 |-> Md5(req, BillNumber(created_at, sid)),
     status |-> "PENDING", created_at |-> created_at,
     expired_at |-> created_at, paid_at |-> None]

\* the dict stored at lines 138-150
NewSale(sid, req, created_at) ==
    [sale_id |-> sid, amount |-> req.amount, currency |-> req.currency,
     note |-> req.note, cashier_id |-> req.cashier_id,
     bill_number |-> BillNumber(created_at, sid),
     md5 |-> Md5(req, BillNumber(created_at, sid)),
     status |-> "PENDING", created_at |-> created_at,
     expired_at |-> created_at + SALE_TTL_SECONDS, paid_at |-> None]

Init ==
    /\ SALES = [s \in SaleIds |-> NoSale]
    /\ now = 0
    /\ BAKONG_TOKEN \in BOOLEAN
    /\ pc = [t \in Threads |-> "idle"]
    /\ call = [t \in Threads |-> NoCall]
    /\ loc = [t \in Threads |-> NoLoc]
    /\ out = NoOut
    /\ seen = [s \in SaleIds |-> {}]

(* ---------------- helpers of the actions ---------------- *)
Ok(status, paid_at) == [code |-> 200, detail |-> "ok", status |-> status, paid_at |-> paid_at]
Err(code, detail) == [code |-> code, detail |-> detail, status |-> "None", paid_at |-> None]

\* the responses whose delivery is remembered in seen
Observed == { <<"check_sale_status", "PAID">>, <<"cancel_sale", "CANCELLED">> }

\* the handler of thread t, called as c, ends with the response r
Return(t, c, r) ==
    /\ pc' = [pc EXCEPT ![t] = "idle"]
    /\ call' = [call EXCEPT ![t] = NoCall]
    /\ loc' = [loc EXCEPT ![t] = NoLoc]
    /\ out' = [op |-> c.op, sale_id |-> c.sale_id, code |-> r.code,
               detail |-> r.detail, status |-> r.status, paid_at |-> r.paid_at]
    /\ seen' = IF r.code = 200 /\ <<c.op, r.status>> \in Observed
               THEN [seen EXCEPT ![c.sale_id] = @ \cup {<<c.op, r.status>>}]
               ELSE seen

\* the handler of thread t goes on at line l
Goto(t, l) ==
    /\ pc' = [pc EXCEPT ![t] = l]
    /\ out' = NoOut
    /\ UNCHANGED seen

\* a lookup that leaves a placeholder record under an id it did not find
Lookup_Placeholder(t, op, sid, l) ==
    /\ pc[t] = "idle"
    /\ IF Present(sid)
       THEN /\ call' = [call EXCEPT ![t] = [op |-> op, sale_id |-> sid, req |-> NoReq]]
            /\ Goto(t, l)
            /\ UNCHANGED <<SALES, loc>>
       ELSE /\ SALES' = [SALES EXCEPT ![sid] =
                            NewSale(sid, CHOOSE req \in Requests : ValidReq(req), now)]
            /\ Return(t, [op |-> op, sale_id |-> sid, req |-> NoReq], Err(404, "Sale not found"))
    /\ UNCHANGED <<now, BAKONG_TOKEN>>

\* a thread takes a request for sale_id: sale = SALES.get(sale_id);
\* if not sale: 404; otherwise it goes on at line l
Lookup(t, op, sid, l) ==
    /\ pc[t] = "idle"
    /\ IF Present(sid)
       THEN /\ call' = [call EXCEPT ![t] = [op |-> op, sale_id |-> sid, req |-> NoReq]]
            /\ Goto(t, l)
            /\ UNCHANGED loc
       ELSE Return(t, [op |-> op, sale_id |-> sid, req |-> NoReq], Err(404, "Sale not found"))
    /\ UNCHANGED <<SALES, now, BAKONG_TOKEN>>

(* ---------------- the clock ---------------- *)
Tick ==
    /\ now < MaxTime
    /\ now' = now + 1
    /\ out' = NoOut
    /\ UNCHANGED <<SALES, BAKONG_TOKEN, pc, call, loc, seen>>

(* ---------------- _refresh_sale_expiry (lines 60-66) ---------------- *)
\* where the caller continues after the refresh returns (lines 173, 197)
AfterRefresh(t) == IF call[t].op = "get_sale" THEN "l183" ELSE "l200"

\* line 62: if sale.get("status") in ("PAID", "CANCELLED"): return
Finalized(sale) == sale.status \in {"PAID", "CANCELLED"}

Refresh62(t) ==
    /\ pc[t] = "l62"
    /\ Goto(t, IF Finalized(SALES[call[t].sale_id]) THEN AfterRefresh(t) ELSE "l64")
    /\ UNCHANGED <<SALES, now, BAKONG_TOKEN, call, loc>>

\* the comparison of line 65
Expired(t_now, sale) == t_now > sale.expired_at

\* lines 64-65: now = int(time.time()); if now > int(sale.get("expired_at", 0))
Refresh64(t) ==
    /\ pc[t] = "l64"
    /\ loc' = [loc EXCEPT ![t].expired = Expired(now, SALES[call[t].sale_id])]
    /\ Goto(t, IF Expired(now, SALES[call[t].sale_id]) THEN "l66" ELSE AfterRefresh(t))
    /\ UNCHANGED <<SALES, now, BAKONG_TOKEN, call>>

\* a refresh that cancels a sale it finds EXPIRED already
Refresh66_Escalates(t) ==
    /\ pc[t] = "l66"
    /\ SALES' = [SALES EXCEPT ![call[t].sale_id].status =
                    IF @ = "EXPIRED" THEN "CANCELLED" ELSE "EXPIRED"]
    /\ Goto(t, AfterRefresh(t))
    /\ UNCHANGED <<now, BAKONG_TOKEN, call, loc>>

\* a refresh that sweeps the table and expires every overdue open sale
Refresh66_Sweep(t) ==
    /\ pc[t] = "l66"
    /\ SALES' = [s \in DOMAIN SALES |->
                    IF s = call[t].sale_id
                       \/ (Present(s) /\ ~Finalized(SALES[s]) /\ Expired(now, SALES[s]))
                    THEN [SALES[s] EXCEPT !.status = "EXPIRED"]
                    ELSE SALES[s]]
    /\ Goto(t, AfterRefresh(t))
    /\ UNCHANGED <<now, BAKONG_TOKEN, call, loc>>

\* line 66: sale["status"] = "EXPIRED"
Refresh66(t) ==
    /\ pc[t] = "l66"
    /\ SALES' = [SALES EXCEPT ![call[t].sale_id].status = "EXPIRED"]
    /\ Goto(t, AfterRefresh(t))
    /\ UNCHANGED <<now, BAKONG_TOKEN, call, loc>>

(* ---------------- create_sale (lines 111-164) ---------------- *)
\* the request model rejects the body before the handler runs (lines 79-83)
CreateInvalid(t, req) ==
    /\ pc[t] = "idle"
    /\ ~ValidReq(req)
    /\ Return(t, [op |-> "create_sale", sale_id |-> 0, req |-> req], Err(422, "validation"))
    /\ UNCHANGED <<SALES, now, BAKONG_TOKEN>>

\* lines 113-120: created_at = int(time.time())
Create114(t, req) ==
    /\ pc[t] = "idle"
    /\ ValidReq(req)
    /\ call' = [call EXCEPT ![t] = [op |-> "create_sale", sale_id |-> 0, req |-> req]]
    /\ loc' = [loc EXCEPT ![t].created_at = now]
    /\ Goto(t, "l123")
    /\ UNCHANGED <<SALES, now, BAKONG_TOKEN>>

\* lines 123-150: create_qr and generate_md5 succeed, the sale is stored
\* under its fresh uuid4
Create138(t, sid) ==
    /\ pc[t] = "l123"
    /\ ~Present(sid)
    /\ SALES' = [SALES EXCEPT ![sid] = NewSale(sid, call[t].req, loc[t].created_at)]
    /\ call' = [call EXCEPT ![t].sale_id = sid]
    /\ Goto(t, "l157")
    /\ UNCHANGED <<now, BAKONG_TOKEN, loc>>

\* a handler that stores the sale before the fingerprint is made
CreateProviderFails_Partial(t) ==
    /\ pc[t] = "l123"
    /\ \E sid \in DOMAIN SALES :
          /\ ~Present(sid)
          /\ SALES' = [SALES EXCEPT ![sid] = NewSale(sid, call[t].req, loc[t].created_at)]
    /\ Return(t, call[t], Err(500, "KHQR create failed"))
    /\ UNCHANGED <<now, BAKONG_TOKEN>>

\* lines 123-136 raise: except Exception -> 500 (line 164)
CreateProviderFails(t) ==
    /\ pc[t] = "l123"
    /\ Return(t, call[t], Err(500, "KHQR create failed"))
    /\ UNCHANGED <<SALES, now, BAKONG_TOKEN>>

\* lines 152-161: qr_png_base64 succeeds, the response is built
Create157(t) ==
    /\ pc[t] = "l157"
    /\ Return(t, call[t], Ok("PENDING", None))
    /\ UNCHANGED <<SALES, now, BAKONG_TOKEN>>

\* line 157 raises (qr_png_base64, lines 69-73): except Exception -> 500
CreateRenderFails(t) ==
    /\ pc[t] = "l157"
    /\ Return(t, call[t], Err(500, "KHQR create failed"))
    /\ UNCHANGED <<SALES, now, BAKONG_TOKEN>>

(* ---------------- get_sale (lines 167-187) ---------------- *)
\* lines 169-173
GetSale169(t, sid) == Lookup(t, "get_sale", sid, "l62")

\* line 183: "status": sale["status"]
GetSale183(t) ==
    /\ pc[t] = "l183"
    /\ loc' = [loc EXCEPT ![t].status = SALES[call[t].sale_id].status]
    /\ Goto(t, "l185")
    /\ UNCHANGED <<SALES, now, BAKONG_TOKEN, call>>

\* line 185: "paid_at": sale["paid_at"], and the dict is returned
GetSale185(t) ==
    /\ pc[t] = "l185"
    /\ Return(t, call[t], Ok(loc[t].status, SALES[call[t].sale_id].paid_at))
    /\ UNCHANGED <<SALES, now, BAKONG_TOKEN>>

(* ---------------- check_sale_status (lines 190-231) ---------------- *)
\* lines 192-197
CheckStatus192(t, sid) == Lookup(t, "check_sale_status", sid, "l62")

\* lines 200-201: if sale["status"] == "EXPIRED": return EXPIRED
CheckStatus200(t) ==
    /\ pc[t] = "l200"
    /\ IF SALES[call[t].sale_id].status = "EXPIRED"
       THEN Return(t, call[t], Ok("EXPIRED", None))
       ELSE Goto(t, "l204") /\ UNCHANGED <<call, loc>>
    /\ UNCHANGED <<SALES, now, BAKONG_TOKEN>>

\* a poll that calls the oracle whether or not a token is configured
CheckStatus204_AnyToken(t) ==
    /\ pc[t] = "l204"
    /\ Goto(t, IF Finalized(SALES[call[t].sale_id]) THEN "l205" ELSE "l212")
    /\ UNCHANGED <<SALES, now, BAKONG_TOKEN, call, loc>>

\* lines 204-212: already done -> line 205; no token -> PENDING (line 209);
\* otherwise khqr.check_payment(sale["md5"]) is called (line 212)
CheckStatus204(t) ==
    /\ pc[t] = "l204"
    /\ IF Finalized(SALES[call[t].sale_id])
       THEN Goto(t, "l205") /\ UNCHANGED <<call, loc>>
       ELSE IF ~BAKONG_TOKEN
            THEN Return(t, call[t], Ok("PENDING", None))
            ELSE Goto(t, "l212") /\ UNCHANGED <<call, loc>>
    /\ UNCHANGED <<SALES, now, BAKONG_TOKEN>>

\* line 205: return SaleStatusRes(status=sale["status"])
CheckStatus205(t) ==
    /\ pc[t] = "l205"
    /\ Return(t, call[t], Ok(SALES[call[t].sale_id].status, None))
    /\ UNCHANGED <<SALES, now, BAKONG_TOKEN>>

\* lines 212-224: check_payment returns result; on a paid answer
\* sale["status"] = "PAID"
CheckStatus212(t, result) ==
    /\ pc[t] = "l212"
    /\ loc' = [loc EXCEPT ![t].result = result]
    /\ IF IsPaidResult(result)
       THEN /\ SALES' = [SALES EXCEPT ![call[t].sale_id].status = "PAID"]
            /\ Goto(t, "l225")
       ELSE /\ UNCHANGED SALES
            /\ Goto(t, "l228")
    /\ UNCHANGED <<now, BAKONG_TOKEN, call>>

\* a handler that gives the sale up when the oracle fails
CheckStatusOracleFails_Expires(t) ==
    /\ pc[t] = "l212"
    /\ SALES' = [SALES EXCEPT ![call[t].sale_id].status = "EXPIRED"]
    /\ Return(t, call[t], Err(500, "Payment check failed"))
    /\ UNCHANGED <<now, BAKONG_TOKEN>>

\* line 212 raises: except Exception -> 500 (lines 230-231)
CheckStatusOracleFails(t) ==
    /\ pc[t] = "l212"
    /\ Return(t, call[t], Err(500, "Payment check failed"))
    /\ UNCHANGED <<SALES, now, BAKONG_TOKEN>>

\* line 225: sale["paid_at"] = int(time.time())
CheckStatus225(t) ==
    /\ pc[t] = "l225"
    /\ SALES' = [SALES EXCEPT ![call[t].sale_id].paid_at = now]
    /\ Goto(t, "l228")
    /\ UNCHANGED <<now, BAKONG_TOKEN, call, loc>>

\* line 228: return SaleStatusRes(status=sale["status"])
CheckStatus228(t) ==
    /\ pc[t] = "l228"
    /\ Return(t, call[t], Ok(SALES[call[t].sale_id].status, None))
    /\ UNCHANGED <<SALES, now, BAKONG_TOKEN>>

(* ---------------- cancel_sale (lines 234-243) ---------------- *)
\* lines 236-238
CancelSale236(t, sid) == Lookup(t, "cancel_sale", sid, "l239")

\* a cancel that forgets the check of line 239
CancelSale239_NoCheck(t) ==
    /\ pc[t] = "l239"
    /\ Goto(t, "l242")
    /\ UNCHANGED <<SALES, now, BAKONG_TOKEN, call, loc>>

\* a cancel that also rejects a sale that is CANCELLED already
CancelSale239_Once(t) ==
    /\ pc[t] = "l239"
    /\ IF Finalized(SALES[call[t].sale_id])
       THEN Return(t, call[t], Err(400, "Cannot cancel a PAID sale"))
       ELSE Goto(t, "l242") /\ UNCHANGED <<call, loc>>
    /\ UNCHANGED <<SALES, now, BAKONG_TOKEN>>

\* lines 239-240: if sale["status"] == "PAID": 400
CancelSale239(t) ==
    /\ pc[t] = "l239"
    /\ IF SALES[call[t].sale_id].status = "PAID"
       THEN Return(t, call[t], Err(400, "Cannot cancel a PAID sale"))
       ELSE Goto(t, "l242") /\ UNCHANGED <<call, loc>>
    /\ UNCHANGED <<SALES, now, BAKONG_TOKEN>>

\* lines 242-243: sale["status"] = "CANCELLED"; return CANCELLED
CancelSale242(t) ==
    /\ pc[t] = "l242"
    /\ SALES' = [SALES EXCEPT ![call[t].sale_id].status = "CANCELLED"]
    /\ Return(t, call[t], Ok("CANCELLED", None))
    /\ UNCHANGED <<now, BAKONG_TOKEN>>

(* ---------------- the system ---------------- *)
Next ==
    \/ Tick
    \/ \E t \in Threads, req \in Requests : CreateInvalid(t, req)
    \/ \E t \in Threads, req \in Requests : Create114(t, req)
    \/ \E t \in Threads, sid \in SaleIds : Create138(t, sid)
    \/ \E t \in Threads : CreateProviderFails(t)
    \/ \E t \in Threads : Create157(t)
    \/ \E t \in Threads : CreateRenderFails(t)
    \/ \E t \in Threads, sid \in SaleIds : GetSale169(t, sid)
    \/ \E t \in Threads : GetSale183(t)
    \/ \E t \in Threads : GetSale185(t)
    \/ \E t \in Threads, sid \in SaleIds : CheckStatus192(t, sid)
    \/ \E t \in Threads : Refresh62(t)
    \/ \E t \in Threads : Refresh64(t)
    \/ \E t \in Threads : Refresh66(t)
    \/ \E t \in Threads : CheckStatus200(t)
    \/ \E t \in Threads : CheckStatus204(t)
    \/ \E t \in Threads : CheckStatus205(t)
    \/ \E t \in Threads, result \in Answers : CheckStatus212(t, result)
    \/ \E t \in Threads : CheckStatusOracleFails(t)
    \/ \E t \in Threads : CheckStatus225(t)
    \/ \E t \in Threads : CheckStatus228(t)
    \/ \E t \in Threads, sid \in SaleIds : CancelSale236(t, sid)
    \/ \E t \in Threads : CancelSale239(t)
    \/ \E t \in Threads : CancelSale242(t)

Spec == Init /\ [][Next]_vars

(* ---------------- the oracle's answers, one poll at a time ---------------- *)
ValidRequests == { req \in Requests : ValidReq(req) }

AllIdle == \A t \in Threads : pc[t] = "idle"

\* every sale id holds a sale created at time 0, still PENDING
InitOracle ==
    /\ \E req \in ValidRequests : SALES = [s \in SaleIds |-> NewSale(s, req, 0)]
    /\ now = 0
    /\ BAKONG_TOKEN = TRUE
    /\ pc = [t \in Threads |-> "idle"]
    /\ call = [t \in Threads |-> NoCall]
    /\ loc = [t \in Threads |-> NoLoc]
    /\ out = NoOut
    /\ seen = [s \in SaleIds |-> {}]

NextOracle ==
    \/ Tick
    \/ \E t \in Threads, sid \in SaleIds : AllIdle /\ CheckStatus192(t, sid)
    \/ \E t \in Threads : Refresh62(t)
    \/ \E t \in Threads : Refresh64(t)
    \/ \E t \in Threads : Refresh66(t)
    \/ \E t \in Threads : CheckStatus200(t)
    \/ \E t \in Threads : CheckStatus204(t)
    \/ \E t \in Threads : CheckStatus205(t)
    \/ \E t \in Threads, result \in Responses : CheckStatus212(t, result)
    \/ \E t \in Threads : CheckStatusOracleFails(t)
    \/ \E t \in Threads : CheckStatus225(t)
    \/ \E t \in Threads : CheckStatus228(t)

SpecOracle == InitOracle /\ [][NextOracle]_vars

(* ---------------- concurrent cancels of one sale ---------------- *)
\* every sale id holds a sale created at time 0 that is PENDING, or EXPIRED
\* by an earlier get_sale
InitCancel ==
    /\ \E req \in ValidRequests, st \in {"PENDING", "EXPIRED"} :
          SALES = [s \in SaleIds |-> [NewSale(s, req, 0) EXCEPT !.status = st]]
    /\ now \in Times
    /\ \A s \in SaleIds : SALES[s].status = "EXPIRED" => Expired(now, SALES[s])
    /\ BAKONG_TOKEN \in BOOLEAN
    /\ pc = [t \in Threads |-> "idle"]
    /\ call = [t \in Threads |-> NoCall]
    /\ loc = [t \in Threads |-> NoLoc]
    /\ out = NoOut
    /\ seen = [s \in SaleIds |-> {}]

NextCancel ==
    \/ Tick
    \/ \E t \in Threads, sid \in SaleIds : CancelSale236(t, sid)
    \/ \E t \in Threads : CancelSale239(t)
    \/ \E t \in Threads : CancelSale242(t)

SpecCancel == InitCancel /\ [][NextCancel]_vars

(* ---------------- a table of several sales ---------------- *)
\* one sale id more than SaleIds, with the requests served one at a time
TableIds == 1..(NumSaleIds + 1)

InitTable ==
    /\ SALES = [s \in TableIds |-> NoSale]
    /\ now = 0
    /\ BAKONG_TOKEN \in BOOLEAN
    /\ pc = [t \in Threads |-> "idle"]
    /\ call = [t \in Threads |-> NoCall]
    /\ loc = [t \in Threads |-> NoLoc]
    /\ out = NoOut
    /\ seen = [s \in TableIds |-> {}]

NextTable ==
    \/ Tick
    \/ \E t \in Threads, req \in Requests : AllIdle /\ CreateInvalid(t, req)
    \/ \E t \in Threads, req \in Requests : AllIdle /\ Create114(t, req)
    \/ \E t \in Threads, sid \in TableIds : Create138(t, sid)
    \/ \E t \in Threads : CreateProviderFails(t)
    \/ \E t \in Threads : Create157(t)
    \/ \E t \in Threads : CreateRenderFails(t)
    \/ \E t \in Threads, sid \in TableIds : AllIdle /\ GetSale169(t, sid)
    \/ \E t \in Threads : GetSale183(t)
    \/ \E t \in Threads : GetSale185(t)
    \/ \E t \in Threads, sid \in TableIds : AllIdle /\ CheckStatus192(t, sid)
    \/ \E t \in Threads : Refresh62(t)
    \/ \E t \in Threads : Refresh64(t)
    \/ \E t \in Threads : Refresh66(t)
    \/ \E t \in Threads : CheckStatus200(t)
    \/ \E t \in Threads : CheckStatus204(t)
    \/ \E t \in Threads : CheckStatus205(t)
    \/ \E t \in Threads, result \in Answers : CheckStatus212(t, result)
    \/ \E t \in Threads : CheckStatusOracleFails(t)
    \/ \E t \in Threads : CheckStatus225(t)
    \/ \E t \in Threads : CheckStatus228(t)
    \/ \E t \in Threads, sid \in TableIds : AllIdle /\ CancelSale236(t, sid)
    \/ \E t \in Threads : CancelSale239(t)
    \/ \E t \in Threads : CancelSale242(t)

SpecTable == InitTable /\ [][NextTable]_vars

(* ---------------- the expiry check applied again and again ---------------- *)
\* the refresh is between its first and its last line in thread t
InRefresh(t) == pc[t] \in {"l62", "l64", "l66"}

\* every sale id holds a sale created at time 0 in any status the handlers
\* can leave it in
InitRefresh ==
    /\ \E req \in ValidRequests, st \in {"PENDING", "EXPIRED", "PAID", "CANCELLED"},
          p \in Times :
          SALES = [s \in SaleIds |->
                     [NewSale(s, req, 0) EXCEPT !.status = st,
                                                !.paid_at = IF st = "PAID" THEN p ELSE None]]
    /\ now \in Times
    /\ \A s \in SaleIds :
          /\ SALES[s].status = "EXPIRED" => Expired(now, SALES[s])
          /\ SALES[s].status = "PAID" => SALES[s].paid_at <= now
    /\ BAKONG_TOKEN \in BOOLEAN
    /\ pc = [t \in Threads |-> "idle"]
    /\ call = [t \in Threads |-> NoCall]
    /\ loc = [t \in Threads |-> NoLoc]
    /\ out = NoOut
    /\ seen = [s \in SaleIds |-> {}]

\* get_sale calls whose refreshes run one after the other; the clock moves
\* only between the calls
NextRefresh ==
    \/ AllIdle /\ Tick
    \/ \E t \in Threads, sid \in SaleIds :
          /\ \A u \in Threads : ~InRefresh(u)
          /\ GetSale169(t, sid)
    \/ \E t \in Threads : Refresh62(t)
    \/ \E t \in Threads : Refresh64(t)
    \/ \E t \in Threads : Refresh66(t)
    \/ \E t \in Threads : GetSale183(t)
    \/ \E t \in Threads : GetSale185(t)

SpecRefresh == InitRefresh /\ [][NextRefresh]_vars

(* ======================= the claims ======================= *)
Status(s) == SALES[s].status
PaidAt(s) == SALES[s].paid_at

\* thread t takes the step that ends its handler
Returns(t) == pc[t] # "idle" /\ pc'[t] = "idle"

\* the moves of the status lattice
C1_AllowedMoves == { <<"PENDING", "PAID">>, <<"PENDING", "CANCELLED">>,
                     <<"PENDING", "EXPIRED">>, <<"EXPIRED", "CANCELLED">> }

(* C1: every change of a sale's stored status is PENDING->PAID,
   PENDING->CANCELLED, PENDING->EXPIRED or EXPIRED->CANCELLED; nothing leaves
   PAID or CANCELLED and PAID is not reached from EXPIRED or CANCELLED. *)
C1_StatusLattice ==
    [][\A s \in SaleIds :
          Present(s) => \/ SALES'[s].status = SALES[s].status
                        \/ <<SALES[s].status, SALES'[s].status>> \in C1_AllowedMoves]_vars

(* C2: a cancel_sale that reads status PAID at line 239 fails with 400
   'Cannot cancel a PAID sale' and changes nothing; one that reads PENDING or
   EXPIRED goes on to line 242, which stores CANCELLED and returns CANCELLED. *)
C2_CancelPaidOrNot ==
    [][\A t \in Threads :
          /\ (pc[t] = "l239" /\ pc'[t] # "l239") =>
                /\ SALES' = SALES
                /\ IF Status(call[t].sale_id) = "PAID"
                   THEN /\ pc'[t] = "idle"
                        /\ out'.op = "cancel_sale" /\ out'.sale_id = call[t].sale_id
                        /\ out'.code = 400 /\ out'.detail = "Cannot cancel a PAID sale"
                   ELSE pc'[t] = "l242"
          /\ (pc[t] = "l242" /\ pc'[t] # "l242") =>
                /\ pc'[t] = "idle"
                /\ out'.op = "cancel_sale" /\ out'.sale_id = call[t].sale_id
                /\ out'.code = 200 /\ out'.status = "CANCELLED"
                /\ SALES'[call[t].sale_id].status = "CANCELLED"]_vars

C2_Witness ==
    \E s \in SaleIds :
        /\ Present(s) /\ Status(s) = "PAID" /\ PaidAt(s) # None
        /\ out.op = "cancel_sale" /\ out.sale_id = s /\ out.code = 400

(* C3: for every stored sale, paid_at is set exactly when status is PAID,
   in every state another call can observe. *)
C3_PaidAtIffPaid ==
    \A s \in SaleIds : Present(s) => ((PaidAt(s) # None) <=> (Status(s) = "PAID"))

\* the results of removing from s a longest prefix and a longest suffix of
\* characters of cs
C4_Strips(s, cs) ==
    { r \in { SubSeq(s, i + 1, Len(s) - j) : i \in 0..Len(s), j \in 0..Len(s) } :
        \E i \in 0..Len(s), j \in 0..Len(s) :
            /\ i + j <= Len(s)
            /\ r = SubSeq(s, i + 1, Len(s) - j)
            /\ \A k \in 1..i : s[k] \in cs
            /\ \A k \in (Len(s) - j + 1)..Len(s) : s[k] \in cs
            /\ r = <<>> \/ (r[1] \notin cs /\ r[Len(r)] \notin cs) }

\* a and the upper-case word w are the same up to letter case
C4_SameWord(a, w) ==
    /\ Len(a) = Len(w)
    /\ \A k \in 1..Len(w) :
          a[k] = w[k] \/ \E n \in 1..Len(UpperChars) : UpperChars[n] = w[k] /\ LowerChars[n] = a[k]

C4_Accepted(result) ==
    \E a \in C4_Strips(result, Whitespace) :
        \E b \in C4_Strips(a, {Quote}) :
            \E w \in PAID_WORDS : C4_SameWord(b, w)

(* C4: polling a PENDING, unexpired sale, the sale becomes PAID exactly when
   the oracle's answer, its surrounding whitespace and then its surrounding
   double quotes removed, is one of PAID, SUCCESS, SUCCESSFUL, COMPLETED in
   any letter case; for any other answer the table is unchanged and the poll
   returns PENDING with code 200. *)
C4_ExactMatch ==
    [][\A t \in Threads :
          /\ (pc[t] = "l212" /\ pc'[t] \in {"l225", "l228"}) =>
                IF C4_Accepted(loc'[t].result)
                THEN pc'[t] = "l225" /\ SALES'[call[t].sale_id].status = "PAID"
                ELSE pc'[t] = "l228" /\ SALES' = SALES
          /\ (pc[t] = "l225" /\ pc'[t] # "l225") =>
                /\ C4_Accepted(loc[t].result)
                /\ SALES'[call[t].sale_id].status = "PAID"
                /\ SALES'[call[t].sale_id].paid_at # None
          /\ (pc[t] = "l228" /\ Returns(t) /\ ~C4_Accepted(loc[t].result)) =>
                /\ out'.code = 200 /\ out'.status = "PENDING"
                /\ SALES' = SALES
                /\ SALES[call[t].sale_id].paid_at = None]_vars

C4_Witness ==
    \E t \in Threads :
        /\ pc[t] = "l228"
        /\ loc[t].result = <<" ", Quote, "U","N","P","A","I","D", Quote, "\t">>
        /\ Status(call[t].sale_id) = "PENDING"

(* C5: check_sale_status queries the oracle only for a sale that is PENDING
   after the expiry refresh of the same call: a call whose own expiry check
   found the sale expired never goes on to the oracle call of line 212. *)
C5_NoQueryWhenExpired ==
    [][\A t \in Threads :
          (pc[t] # "l212" /\ pc'[t] = "l212") => ~loc[t].expired]_vars

(* C6: when the oracle call of check_sale_status raises, the call answers
   500 'Payment check failed' and its step leaves the whole sales table as
   it was. *)
C6_OracleFailureNoChange ==
    [][\A t \in Threads :
          (pc[t] = "l212" /\ Returns(t)) =>
              /\ out'.op = "check_sale_status" /\ out'.sale_id = call[t].sale_id
              /\ out'.code = 500 /\ out'.detail = "Payment check failed"
              /\ SALES' = SALES]_vars

C6_Witness ==
    \E s \in SaleIds :
        /\ out.op = "check_sale_status" /\ out.sale_id = s /\ out.code = 500
        /\ Present(s) /\ Status(s) = "PENDING" /\ PaidAt(s) = None

(* C7: a get_sale or check_sale_status call whose expiry check read a clock
   value greater than expired_at never returns status PENDING. *)
C7_NeverPendingAfterExpiry ==
    [][\A t \in Threads :
          (Returns(t) /\ call[t].op \in {"get_sale", "check_sale_status"}
              /\ out'.code = 200 /\ out'.status = "PENDING") => ~loc[t].expired]_vars

(* C8: with only cancel_sale calls running on a sale that starts PENDING or
   EXPIRED, one after another or overlapping, every call returns CANCELLED
   with code 200, the stored status is CANCELLED from the first return on,
   and no field but status differs from the sale as created. *)
C8_CancelIdempotent ==
    /\ out.op = "cancel_sale" => out.code = 200 /\ out.status = "CANCELLED"
    /\ \A s \in SaleIds :
          /\ <<"cancel_sale", "CANCELLED">> \in seen[s] => Status(s) = "CANCELLED"
          /\ [SALES[s] EXCEPT !.status = "PENDING"] \in { NewSale(s, req, 0) : req \in ValidRequests }

C8_Witness ==
    \E s \in SaleIds, t \in Threads :
        /\ <<"cancel_sale", "CANCELLED">> \in seen[s]
        /\ pc[t] = "l242" /\ call[t].sale_id = s
        /\ Status(s) = "CANCELLED"

(* C9: calls on one sale are linearizable; in particular no sale has both a
   poll that returned PAID and a cancel that returned CANCELLED. *)
C9_NoPaidAndCancelled ==
    \A s \in SaleIds :
        ~(<<"check_sale_status", "PAID">> \in seen[s] /\ <<"cancel_sale", "CANCELLED">> \in seen[s])

(* C10: a get_sale response never pairs status PAID with a null paid_at, nor
   another status with a paid_at that is set. *)
C10_ConsistentSnapshot ==
    (out.op = "get_sale" /\ out.code = 200) =>
        ((out.status = "PAID") <=> (out.paid_at # None))

\* the ids that are keys of the table
Stored == { s \in DOMAIN SALES : Present(s) }

(* C11: a create_sale that gets past the payload provider stores exactly one
   new sale, with status PENDING, paid_at null and expired_at = created_at +
   TTL; a create_sale that returns 200 has stored its sale; nothing else adds
   a sale; and expired_at = created_at + TTL for every stored sale, always. *)
C11_CreateStoresOne ==
    /\ [](\A s \in Stored : SALES[s].expired_at = SALES[s].created_at + SALE_TTL_SECONDS)
    /\ [][/\ \A t \in Threads :
               (pc[t] = "l123" /\ pc'[t] = "l157") =>
                   \E s \in DOMAIN SALES :
                       /\ ~Present(s)
                       /\ SALES'[s] # NoSale
                       /\ SALES'[s].sale_id = s
                       /\ SALES'[s].status = "PENDING"
                       /\ SALES'[s].paid_at = None
                       /\ SALES'[s].created_at = loc[t].created_at
                       /\ SALES'[s].expired_at = loc[t].created_at + SALE_TTL_SECONDS
                       /\ SALES'[s].amount = call[t].req.amount
                       /\ SALES'[s].currency = call[t].req.currency
                       /\ \A u \in DOMAIN SALES \ {s} : SALES'[u] = SALES[u]
          /\ \A t \in Threads :
               (pc[t] = "l157" /\ Returns(t) /\ out'.code = 200) =>
                   /\ out'.op = "create_sale" /\ out'.status = "PENDING"
                   /\ out'.sale_id \in Stored
          /\ (Stored' # Stored) => \E t \in Threads : pc[t] = "l123" /\ pc'[t] = "l157"]_vars

C11_Witness ==
    /\ out.op = "create_sale" /\ out.code = 200
    /\ Cardinality(Stored) = 2
    /\ \E s \in Stored : SALES[s].created_at = 1 /\ SALES[s].expired_at = 1 + SALE_TTL_SECONDS

(* C12: a create_sale whose request fails validation (amount <= 0 or a
   currency other than USD, KHR) answers 422 and never enters the handler; a
   create_sale whose payload provider fails answers 500 'KHQR create failed';
   no step of either call changes the sales table. *)
C12_FailedCreateStoresNothing ==
    /\ [](\A t \in Threads :
            pc[t] \in {"l123", "l157"} =>
                call[t].req.amount > 0 /\ call[t].req.currency \in {"USD", "KHR"})
    /\ [][/\ (pc' = pc /\ out'.op = "create_sale") =>
                  /\ out'.code = 422
                  /\ SALES' = SALES
          /\ \A t \in Threads :
                /\ (pc[t] = "idle" /\ pc'[t] = "l123") => SALES' = SALES
                /\ (pc[t] = "l123" /\ Returns(t)) =>
                      /\ out'.op = "create_sale" /\ out'.code = 500
                      /\ out'.detail = "KHQR create failed"
                      /\ SALES' = SALES]_vars

C12_Witness ==
    /\ out.op = "create_sale" /\ out.code = 500 /\ out.sale_id = 0
    /\ Stored = {}

\* C13: get_sale, check_sale_status and cancel_sale on an id that is not in
\* the table answer 404 "Sale not found" in the step of the lookup, which
\* leaves the whole table unchanged; no handler of these three operations
\* goes past its lookup (to the refresh, the oracle call or a write) for an
\* absent id, and 404 is answered for absent ids only.
ByIdOps == {"get_sale", "check_sale_status", "cancel_sale"}

C13_NotFound ==
    /\ [](\A t \in Threads :
            call[t].op \in ByIdOps => Present(call[t].sale_id))
    /\ [][/\ (pc' = pc /\ out'.op \in ByIdOps) =>
                  /\ ~Present(out'.sale_id)
                  /\ out'.code = 404 /\ out'.detail = "Sale not found"
                  /\ SALES' = SALES
          /\ (out'.code = 404) =>
                  /\ out'.op \in ByIdOps
                  /\ ~Present(out'.sale_id)
                  /\ pc' = pc
                  /\ SALES' = SALES
          /\ \A t \in Threads :
                (pc[t] = "idle" /\ call'[t].op \in ByIdOps) => Present(call'[t].sale_id)]_vars

C13_Witness ==
    /\ out.code = 404 /\ out.op = "check_sale_status"
    /\ ~Present(out.sale_id)
    /\ Stored # {}
    /\ BAKONG_TOKEN

\* C14: _refresh_sale_expiry never changes a sale whose status is PAID or
\* CANCELLED and never changes a field other than status, also when it runs
\* next to a poll that marks the sale PAID: the step that ends a refresh
\* (the write of line 66) leaves a PAID or CANCELLED record as it is.
C14_RefreshSparesFinal ==
    [][\A t \in Threads :
          (pc[t] = "l66" /\ pc'[t] # "l66") =>
              LET s == call[t].sale_id
              IN  /\ SALES'[s] = [SALES[s] EXCEPT !.status = SALES'[s].status]
                  /\ SALES[s].status \in {"PAID", "CANCELLED"} => SALES'[s] = SALES[s]]_vars

\* C15: the expiry check is idempotent. While a get_sale whose refresh has
\* returned is still to answer, the clock has not moved and nothing but
\* refreshes has run since, so a further refresh of the same sale is a second
\* application at the same time: it leaves the record as it is. And a sale that is EXPIRED is still
\* EXPIRED after every application, at any later time.
Refreshed(t) == pc[t] \in {"l183", "l185"}

C15_RefreshIdempotent ==
    [][\A s \in DOMAIN SALES :
          /\ (\E t \in Threads : Refreshed(t) /\ call[t].sale_id = s) => SALES'[s] = SALES[s]
          /\ SALES[s].status = "EXPIRED" => SALES'[s].status = "EXPIRED"]_vars

C15_Witness ==
    \E t, u \in Threads :
        /\ t # u
        /\ Refreshed(t) /\ Refreshed(u)
        /\ loc[t].expired /\ loc[u].expired
        /\ call[t].sale_id = call[u].sale_id
        /\ SALES[call[t].sale_id].status = "EXPIRED"

\* C16: paid_at is set at most once per sale: once it is not null its value
\* never changes again, also when two polls of the same sale overlap and
\* both get a paid answer.
C16_PaidAtSetOnce ==
    [][\A s \in Stored : PaidAt(s) # None => SALES'[s].paid_at = PaidAt(s)]_vars

\* C17: sales are never deleted and their identity fields never change; a
\* step that changes the table is a step of one handler and changes no
\* record but the one of the id that handler works on; a clock advance
\* changes no record.
IdentityFields ==
    {"sale_id", "amount", "currency", "note", "cashier_id", "bill_number",
     "md5", "created_at", "expired_at"}

C17_Frame ==
    [][/\ \A s \in Stored :
             /\ SALES'[s] # NoSale
             /\ \A f \in IdentityFields : SALES'[s][f] = SALES[s][f]
       /\ (SALES' # SALES) =>
             \E t \in Threads :
                 /\ pc[t] # "idle" /\ pc'[t] # pc[t]
                 /\ \E s \in {call[t].sale_id, call'[t].sale_id} :
                       \A u \in DOMAIN SALES \ {s} : SALES'[u] = SALES[u]
       /\ (now' # now) => SALES' = SALES]_vars

C17_Witness ==
    \E s, u \in Stored :
        /\ s # u
        /\ out.op = "get_sale" /\ out.code = 200 /\ out.sale_id = s
        /\ Status(s) = "EXPIRED"
        /\ Status(u) = "PENDING" /\ now > SALES[u].expired_at

\* C18: in a process with no oracle token, no poll reaches the oracle call
\* or the writes after it and no poll answers 500; the poll that finds the
\* sale PENDING at line 204 answers 200 PENDING and changes nothing; so no
\* sale is ever PAID and every paid_at stays null.
C18_NoTokenNoPayment ==
    /\ [](~BAKONG_TOKEN =>
            /\ \A s \in Stored : Status(s) # "PAID" /\ PaidAt(s) = None
            /\ \A t \in Threads : pc[t] \notin {"l212", "l225", "l228"}
            /\ out.op = "check_sale_status" => out.code \in {200, 404})
    /\ [][~BAKONG_TOKEN =>
            \A t \in Threads :
                (/\ pc[t] = "l204" /\ pc'[t] # "l204"
                 /\ Status(call[t].sale_id) = "PENDING") =>
                    /\ out'.op = "check_sale_status"
                    /\ out'.sale_id = call[t].sale_id
                    /\ out'.code = 200 /\ out'.status = "PENDING"
                    /\ SALES' = SALES]_vars

C18_Witness ==
    /\ ~BAKONG_TOKEN
    /\ out.op = "check_sale_status" /\ out.code = 200 /\ out.status = "PENDING"
    /\ out.sale_id \in Stored
    /\ Status(out.sale_id) = "PENDING"
    /\ now <= SALES[out.sale_id].expired_at

\* C19: a create_sale call that answers 500 "KHQR create failed", whatever
\* step of it failed, has stored nothing: the sale it was building is not
\* in the table when the error is returned.
C19_ErrorStoresNothing ==
    [][\A t \in Threads :
          (call[t].op = "create_sale" /\ Returns(t) /\ out'.code = 500) =>
              call[t].sale_id \notin { s \in DOMAIN SALES' : SALES'[s] # NoSale }]_vars

\* C20: a sale is never marked PAID after its expiry time: every sale whose
\* status is PAID and whose paid_at is written has paid_at <= expired_at,
\* also when the clock passes expired_at during the oracle call.
C20_PaidBeforeExpiry ==
    \A s \in Stored :
        (Status(s) = "PAID" /\ PaidAt(s) # None) => PaidAt(s) <= SALES[s].expired_at

====
